---------------------------- MODULE Spec2Model ----------------------------
(***************************************************************************)
(* Model of python-enrol/photo_enrol.py: a command-line script that loads  *)
(* its settings, generates a username, and performs up to four blocking    *)
(* HTTP calls (enrol token, enrol image, OAuth access token, delete user). *)
(* Each function of the script is one action; the service's answer to a    *)
(* call is chosen by the environment inside that action.                   *)
(***************************************************************************)
EXTENDS Integers, Sequences, FiniteSets

(* ------------------------------ bounds --------------------------------- *)
\* size of the word list usernames are drawn from
NumWords == 2
\* number of distinct opaque token values the service can hand out
NumTokens == 2

(* ------------------------- program constants --------------------------- *)
\* request_log: the only status treated as success
HTTP_OK == 200
\* fw.generate(3, separator="_")
WordsPerName == 3

\* the keys Settings reads from the environment / .env file
EnvKeys ==
    {"LOG_LEVEL", "REGION", "IMAGE_SOURCE", "IMAGE_PATH",
     "SP_KEY", "SP_SECRET", "OAUTH_USERNAME", "OAUTH_PW"}

RequiredKeys_SourceDefaulted == EnvKeys \ {"IMAGE_SOURCE"}

\* class Settings: every field is declared without a default
RequiredKeys == EnvKeys

(* --------------------------- environment ------------------------------- *)
Words == 1..NumWords
Tokens == 1..NumTokens
\* an unbound local / an absent JSON value
NoValue == 0
\* statuses the service may answer with
Statuses == {HTTP_OK, 401, 500}
\* values LOG_LEVEL may carry in the environment
LogLevelValues == {"debug", "INFO", "error", "CRITICAL", "verbose"}

\* str.upper() on the LOG_LEVEL values
Upper(s) ==
    CASE s = "debug" -> "DEBUG"
      [] s = "error" -> "ERROR"
      [] s = "verbose" -> "VERBOSE"
      [] OTHER -> s

\* logging's level table (logging._nameToLevel), restricted to the names used
LevelNo(name) ==
    CASE name = "DEBUG" -> 10
      [] name = "INFO" -> 20
      [] name = "ERROR" -> 40
      [] name = "CRITICAL" -> 50
      [] OTHER -> -1

\* a response body: JSON object carrying `fields`, or text that is not JSON
Bodies(field) ==
    {[json |-> TRUE, fields |-> {field}, value |-> v] : v \in Tokens}
        \cup {[json |-> TRUE, fields |-> {}, value |-> NoValue],
              [json |-> FALSE, fields |-> {}, value |-> NoValue]}

\* what a blocking call can come back with: a response, or a transport error
Responses(field) ==
    {[kind |-> "response", status |-> s, body |-> b] :
        s \in Statuses, b \in Bodies(field)}
        \cup {[kind |-> "error", status |-> 0,
               body |-> [json |-> FALSE, fields |-> {}, value |-> NoValue]]}

VARIABLES
    env,            \* configuration keys present in the environment / .env
    logLevel,       \* value of LOG_LEVEL when present
    imageReadable,  \* whether open(config.img_path, "rb") succeeds
    deleteFlag,     \* args.delete_user
    pc,             \* the function about to run
    username,       \* photo_enrol's local
    token,          \* photo_enrol's local
    access_token,   \* photo_enrol's local
    calls,          \* HTTP requests issued so far, with their answers
    log,            \* records emitted by the "rich" logger
    exc,            \* exception that ended the process ("None" if none)
    exitStatus      \* <<>> while running, <<code>> once the process exited

vars == <<env, logLevel, imageReadable, deleteFlag, pc, username, token,
          access_token, calls, log, exc, exitStatus>>

\* the values the state of a run ranges over
TypeOK ==
    /\ env \subseteq EnvKeys
    /\ logLevel \in LogLevelValues
    /\ imageReadable \in BOOLEAN
    /\ deleteFlag \in BOOLEAN
    /\ pc \in {"startup", "photo_enrol", "create_token", "send_photo",
               "create_access_token", "delete_user", "exited"}
    /\ username \in {<<>>} \cup [1..WordsPerName -> Words]
    /\ token \in Tokens \cup {NoValue}
    /\ access_token \in Tokens \cup {NoValue}
    /\ Len(calls) <= 4
    /\ \A i \in 1..Len(log) : log[i].level \in {"DEBUG", "INFO", "ERROR"}
    /\ exc \in {"None", "ValidationError", "ValueError", "ConnectionError",
                "SystemExit", "JSONDecodeError", "KeyError", "OSError"}
    /\ exitStatus \in {<<>>, <<0>>, <<1>>}

(* ------------------------------ helpers -------------------------------- *)
\* Logger.isEnabledFor + handler: records below the configured level are dropped
Emit(l, level, msg, status) ==
    IF LevelNo(level) >= LevelNo(Upper(logLevel))
    THEN Append(l, [level |-> level, msg |-> msg, status |-> status])
    ELSE l

RequestLogExits_Never(status) == FALSE

\* request_log: sys.exit() unless the status is 200
RequestLogExits(status) == status # HTTP_OK

RequestLogLevel_Info(status) == "INFO"

\* request_log: log.info on 200, log.error otherwise
RequestLogLevel(status) == IF status = HTTP_OK THEN "INFO" ELSE "ERROR"

\* request_log(req, msg): the log after the call
RequestLog(l, status, msg) == Emit(l, RequestLogLevel(status), msg, status)

HasField_Get(body, field) == body.json

\* response.json()[field]: the key lookup succeeds
HasField(body, field) == body.json /\ field \in body.fields

\* exception raised by r.post/r.delete + request_log (+ .json()[field])
Raised(resp, field) ==
    IF resp.kind = "error" THEN "ConnectionError"
    ELSE IF RequestLogExits(resp.status) THEN "SystemExit"
    ELSE IF field = "" THEN "None"
    ELSE IF ~resp.body.json THEN "JSONDecodeError"
    ELSE IF ~HasField(resp.body, field) THEN "KeyError"
    ELSE "None"

ExitStatus_NonZero(e) == IF e = "None" THEN 0 ELSE 1

\* interpreter exit: sys.exit() carries no code (status 0); any other
\* uncaught exception ends the process with status 1
ExitStatus(e) == IF e \in {"None", "SystemExit"} THEN 0 ELSE 1

Resume_Retry(e, here, next) == IF e = "None" THEN next ELSE here

\* no try/except anywhere: an exception leaves the program, else go on
Resume(e, here, next) == IF e = "None" THEN next ELSE "exited"

AfterPhoto_Always(flag) == "create_access_token"

AfterPhoto_Negated(flag) == IF flag THEN "exited" ELSE "create_access_token"

\* photo_enrol: if args.delete_user
AfterPhoto(flag) == IF flag THEN "create_access_token" ELSE "exited"

OpenFails_Ignored(readable) == FALSE

\* send_photo: open(config.img_path, "rb") raises when the file is unreadable
OpenFails(readable) == ~readable

DeleteUserArgs_TokenMixup(t, a, u) == [username |-> u, bearer |-> t]

\* photo_enrol: delete_user(config, access_token, username)
DeleteUserArgs(t, a, u) == [username |-> u, bearer |-> a]

\* fw.generate(3, separator="_"): three words from the list
Generate == [1..WordsPerName -> Words]

\* leave the program through `e` (or normally) or continue at `next`
Finish(e, here, next) ==
    /\ exc' = e
    /\ pc' = Resume(e, here, next)
    /\ exitStatus' = IF pc' = "exited" THEN <<ExitStatus(e)>> ELSE exitStatus

(* ------------------------------- Init ---------------------------------- *)
Init ==
    /\ env \in SUBSET EnvKeys
    /\ logLevel \in LogLevelValues
    /\ imageReadable \in BOOLEAN
    /\ deleteFlag \in BOOLEAN
    /\ pc = "startup"
    /\ username = <<>>
    /\ token = NoValue
    /\ access_token = NoValue
    /\ calls = <<>>
    /\ log = <<>>
    /\ exc = "None"
    /\ exitStatus = <<>>

(* ------------------------------ actions -------------------------------- *)
\* module level: Settings(...), logging.basicConfig(...), parse_args()
Startup ==
    /\ pc = "startup"
    /\ LET e == IF ~(RequiredKeys \subseteq env) THEN "ValidationError"
                ELSE IF LevelNo(Upper(logLevel)) < 0 THEN "ValueError"
                ELSE "None"
       IN Finish(e, "startup", "photo_enrol")
    /\ UNCHANGED <<env, logLevel, imageReadable, deleteFlag, username, token,
                   access_token, calls, log>>

\* photo_enrol: username = fw.generate(3, separator="_")
GenerateUsername ==
    /\ pc = "photo_enrol"
    /\ username' \in Generate
    /\ pc' = "create_token"
    /\ UNCHANGED <<env, logLevel, imageReadable, deleteFlag, token,
                   access_token, calls, log, exc, exitStatus>>

\* create_token(config, username)
CreateToken ==
    /\ pc = "create_token"
    /\ \E resp \in Responses("token") :
        LET e == Raised(resp, "token")
            l1 == Emit(log, "DEBUG", "getting enrol token", 0)
        IN /\ calls' = Append(calls, [ep |-> "enrol_token",
                                      req |-> [user_id |-> username],
                                      resp |-> resp])
           /\ log' = IF resp.kind = "error" THEN l1
                     ELSE RequestLog(l1, resp.status, "create token")
           /\ token' = IF e = "None" THEN resp.body.value ELSE token
           /\ Finish(e, "create_token", "send_photo")
    /\ UNCHANGED <<env, logLevel, imageReadable, deleteFlag, username,
                   access_token>>

\* send_photo(config, token), then the `if args.delete_user` of photo_enrol
SendPhoto ==
    /\ pc = "send_photo"
    /\ IF OpenFails(imageReadable)
       THEN /\ Finish("OSError", "send_photo", "send_photo")
            /\ UNCHANGED <<calls, log>>
       ELSE \E resp \in Responses("") :
            LET e == Raised(resp, "")
                l1 == Emit(log, "DEBUG", "sending image for enrolment", 0)
            IN /\ calls' = Append(calls, [ep |-> "enrol_image",
                                          req |-> [token |-> token],
                                          resp |-> resp])
               /\ log' = IF resp.kind = "error" THEN l1
                         ELSE RequestLog(l1, resp.status, "enrol image")
               /\ Finish(e, "send_photo", AfterPhoto(deleteFlag))
    /\ UNCHANGED <<env, logLevel, imageReadable, deleteFlag, username, token,
                   access_token>>

\* create_access_token(config)
CreateAccessToken ==
    /\ pc = "create_access_token"
    /\ \E resp \in Responses("access_token") :
        LET e == Raised(resp, "access_token")
            l1 == Emit(log, "DEBUG", "getting oauth access token", 0)
        IN /\ calls' = Append(calls, [ep |-> "access_token",
                                      req |-> [grant_type |-> "client_credentials"],
                                      resp |-> resp])
           /\ log' = IF resp.kind = "error" THEN l1
                     ELSE RequestLog(l1, resp.status, "generate access token")
           /\ access_token' = IF e = "None" THEN resp.body.value
                              ELSE access_token
           /\ Finish(e, "create_access_token", "delete_user")
    /\ UNCHANGED <<env, logLevel, imageReadable, deleteFlag, username, token>>

\* delete_user(config, access_token, username), then the end of the script
DeleteUser ==
    /\ pc = "delete_user"
    /\ \E resp \in Responses("") :
        LET e == Raised(resp, "")
            l1 == Emit(log, "DEBUG", "deleting user", 0)
        IN /\ calls' = Append(calls, [ep |-> "delete_user",
                                      req |-> DeleteUserArgs(token, access_token,
                                                             username),
                                      resp |-> resp])
           /\ log' = IF resp.kind = "error" THEN l1
                     ELSE RequestLog(l1, resp.status, "delete user")
           /\ Finish(e, "delete_user", "exited")
    /\ UNCHANGED <<env, logLevel, imageReadable, deleteFlag, username, token,
                   access_token>>

Next ==
    \/ Startup
    \/ GenerateUsername
    \/ CreateToken
    \/ SendPhoto
    \/ CreateAccessToken
    \/ DeleteUser

Spec == Init /\ [][Next]_vars

(* ------------------------- properties ---------------------------------- *)
\* endpoints requested so far, in order
Eps == [i \in 1..Len(calls) |-> calls[i].ep]

FullOrder == <<"enrol_token", "enrol_image", "access_token", "delete_user">>

IsPrefix(s, t) == Len(s) <= Len(t) /\ \A i \in 1..Len(s) : s[i] = t[i]

Terminal == pc = "exited"
Completed == Terminal /\ exc = "None"
Aborted == Terminal /\ exc # "None"

\* the i-th call was answered, with this status
Answered(i, status) ==
    calls[i].resp.kind = "response" /\ calls[i].resp.status = status

\* the i-th call was answered with a status other than 200
AnsweredNot200(i) ==
    calls[i].resp.kind = "response" /\ calls[i].resp.status # 200

\* the field the script reads from the answer of an endpoint ("" for none)
Expected(ep) ==
    CASE ep = "enrol_token" -> "token"
      [] ep = "access_token" -> "access_token"
      [] OTHER -> ""

\* the i-th call was answered 200 with a body holding the expected field
WellFormed200(i) ==
    /\ Answered(i, 200)
    /\ Expected(calls[i].ep) # "" =>
          /\ calls[i].resp.body.json
          /\ Expected(calls[i].ep) \in calls[i].resp.body.fields

\* the i-th call was answered 200 with a body lacking the expected field
Missing200(i) ==
    /\ Answered(i, 200)
    /\ Expected(calls[i].ep) # ""
    /\ ~(calls[i].resp.body.json /\ Expected(calls[i].ep) \in calls[i].resp.body.fields)

ValidConfig ==
    /\ env = EnvKeys
    /\ logLevel \in {"debug", "INFO", "error", "CRITICAL"}
    /\ imageReadable

\* the name request_log is given for each endpoint
OpName(ep) ==
    CASE ep = "enrol_token" -> "create token"
      [] ep = "enrol_image" -> "enrol image"
      [] ep = "access_token" -> "generate access token"
      [] ep = "delete_user" -> "delete user"

\* the run has just ended with an error-log record for its last call
LoggedLastCall ==
    /\ calls # <<>>
    /\ log # <<>>
    /\ log[Len(log)].level = "ERROR"
    /\ log[Len(log)].msg = OpName(calls[Len(calls)].ep)

\* C1: with a valid configuration, the deletion flag set and every call
\* answered 200 with a well-formed body, the calls made are always a prefix of
\* enrol-token, photo, access-token, delete-user, and the run ends with exactly
\* these four calls, no exception and exit status 0.
C1_FullRunFourCallsInOrder ==
    (ValidConfig /\ deleteFlag /\ \A i \in 1..Len(calls) : WellFormed200(i))
        => /\ IsPrefix(Eps, FullOrder)
           /\ Terminal => (Eps = FullOrder /\ exc = "None" /\ exitStatus = <<0>>)

C1_Witness ==
    /\ ValidConfig /\ deleteFlag /\ Terminal
    /\ Len(calls) = 4
    /\ \A i \in 1..Len(calls) : WellFormed200(i)
    /\ exitStatus = <<0>>

\* C2: with the deletion flag unset, the calls made are a prefix of enrol-token,
\* photo (never an access-token or delete-user call), and once both have
\* answered 200 the run is complete with exactly these two calls.
C2_NoDeleteAtMostTwoCalls ==
    ~deleteFlag
        => /\ IsPrefix(Eps, <<"enrol_token", "enrol_image">>)
           /\ \A i \in 1..Len(calls) :
                 calls[i].ep \notin {"access_token", "delete_user"}
           /\ (Len(calls) = 2 /\ Answered(1, 200) /\ Answered(2, 200))
                 => (Completed /\ exitStatus = <<0>>)

C2_Witness ==
    /\ ~deleteFlag /\ Completed
    /\ Len(calls) = 2 /\ Answered(1, 200) /\ Answered(2, 200)

\* C3: a call answered with a status other than 200 is the last call of the
\* run: the process has exited through request_log's sys.exit() and no later
\* step's call exists, whether or not the deletion flag is set.
C3_ShortCircuitOnNon200 ==
    \A i \in 1..Len(calls) :
        AnsweredNot200(i)
            => /\ Len(calls) = i
               /\ Eps = SubSeq(FullOrder, 1, i)
               /\ Terminal
               /\ exc = "SystemExit"

C3_Witness ==
    /\ Terminal /\ Len(calls) = 3 /\ AnsweredNot200(3)
    /\ Answered(1, 200) /\ Answered(2, 200)

\* C4: a run that stopped at a failure has a non-zero exit status, and exit
\* status 0 comes only from a run that completed all requested steps.
C4_FailureExitsNonZero ==
    Terminal =>
        /\ exc # "None" => exitStatus # <<0>>
        /\ exitStatus = <<0>> =>
              /\ exc = "None"
              /\ Eps = (IF deleteFlag THEN FullOrder
                        ELSE <<"enrol_token", "enrol_image">>)

\* C5: with an unreadable image file no photo-submission, access-token or
\* delete-user call is ever issued and the program never gets past
\* send_photo: the enrol-token call is the only call that may exist.
C5_UnreadableImageNoPhotoCall ==
    ~imageReadable
        => /\ IsPrefix(Eps, <<"enrol_token">>)
           /\ pc \notin {"create_access_token", "delete_user"}
           /\ (Terminal /\ calls # <<>> /\ WellFormed200(1)) => exc = "OSError"

C5_Witness ==
    /\ ~imageReadable /\ deleteFlag /\ Terminal /\ exc = "OSError"
    /\ Len(calls) = 1 /\ WellFormed200(1)

\* C6: a 200 answer lacking the expected field (token, access_token) ends the
\* run at that call with an exception, and no photo or delete-user request
\* ever carries an absent value.
C6_MissingFieldIsFatal ==
    /\ \A i \in 1..Len(calls) :
          Missing200(i) => (Len(calls) = i /\ Aborted)
    /\ \A i \in 1..Len(calls) :
          /\ calls[i].ep = "enrol_image" => calls[i].req.token # NoValue
          /\ calls[i].ep = "delete_user" => calls[i].req.bearer # NoValue

C6_Witness ==
    /\ Aborted /\ Len(calls) = 3 /\ Missing200(3)
    /\ calls[3].resp.body.json /\ exc = "KeyError"

C8_IncompleteConfigNoCall ==
    env # EnvKeys => (calls = <<>> /\ pc \in {"startup", "exited"})

C8_Witness ==
    /\ Cardinality(env) = 7 /\ Terminal /\ exc = "ValidationError"
    /\ calls = <<>> /\ exitStatus = <<1>>

StepIndex(p) ==
    CASE p = "startup" -> 0
      [] p = "photo_enrol" -> 0
      [] p = "create_token" -> 1
      [] p = "send_photo" -> 2
      [] p = "create_access_token" -> 3
      [] p = "delete_user" -> 4
      [] p = "exited" -> 5

\* C9: in every step the step index does not decrease, the calls made are
\* only extended, no endpoint is requested twice, and a terminal state is
\* followed by no further call.
C9_NoRetryNoReversal ==
    [][/\ StepIndex(pc') >= StepIndex(pc)
       /\ IsPrefix(calls, calls')
       /\ \A i, j \in 1..Len(calls') : calls'[i].ep = calls'[j].ep => i = j
       /\ Terminal => (calls' = calls /\ pc' = pc)]_vars

C9_Witness ==
    /\ Terminal /\ Len(calls) = 4 /\ AnsweredNot200(4) /\ exc = "SystemExit"

\* the requests carry the values produced earlier in the same run
DataFlow ==
    \A i \in 1..Len(calls) :
        /\ calls[i].ep = "enrol_token" => calls[i].req.user_id = username
        /\ calls[i].ep = "enrol_image" =>
              /\ i > 1 /\ calls[i - 1].ep = "enrol_token"
              /\ calls[i].req.token = calls[i - 1].resp.body.value
        /\ calls[i].ep = "delete_user" =>
              /\ i > 1 /\ calls[i - 1].ep = "access_token"
              /\ calls[i].req.bearer = calls[i - 1].resp.body.value
              /\ calls[1].ep = "enrol_token"
              /\ calls[i].req.username = calls[1].req.user_id

\* C10: the delete-user request names the username sent as user_id, the photo
\* carries the token the enrol-token answer returned, the bearer credential is
\* the access_token the access-token answer returned, and the username, once
\* generated, never changes.
C10_DataFlowIntegrity ==
    [][/\ DataFlow'
       /\ username # <<>> => username' = username]_vars

C10_Witness ==
    /\ Len(calls) = 4 /\ DataFlow
    /\ calls[4].req.bearer # calls[2].req.token
    /\ calls[4].req.username = username /\ Len(username) = 3

=============================================================================
